---- MODULE Spec2Model ----
(***************************************************************************)
(* uproot/interp/auto.py: interpret(branch, swapbytes) maps the schema     *)
(* metadata of one column (leaves, streamer, class name, children, class   *)
(* registry) to an interpretation (asdtype, asdouble32, asjagged, asobj,   *)
(* asstring, asstlbitset, aswrapped), to None, or raises.                  *)
(*                                                                         *)
(* Text is modelled at the grain the code reads it: leaf titles are        *)
(* sequences of one-character strings (two regular expressions scan        *)
(* them), type and class names are sequences of chunks (compared whole,    *)
(* except bitset<N>, whose digits are chunks), a streamer title is a       *)
(* sequence of tokens in which "[" and "]" are told apart from the text    *)
(* between them, and that text stands for what ast.parse makes of it.      *)
(***************************************************************************)
EXTENDS Integers, Sequences, FiniteSets, TLC

VARIABLES branch, out

vars == <<branch, out>>

(***************************************************************************)
(* Bounds of the model.                                                    *)
(***************************************************************************)
MaxParts == 3
MaxSize == 16

(***************************************************************************)
(* uproot.const: ROOT's EDataType codes and ESTLtype tag.                  *)
(***************************************************************************)
kChar == 1
kShort == 2
kInt == 3
kLong == 4
kFloat == 5
kCounter == 6
kCharStar == 7
kDouble == 8
kDouble32 == 9
kUChar == 11
kUShort == 12
kUInt == 13
kULong == 14
kBits == 15
kLong64 == 16
kULong64 == 17
kBool == 18
kOffsetL == 20
kOffsetP == 40
kObject == 61
kSTLvector == 1
kSTLlist == 2

(***************************************************************************)
(* numpy dtypes: kind, item size, byte order (">" big-endian, "=" native,  *)
(* "|" not applicable: one-byte and record types), subarray shape, fields. *)
(***************************************************************************)
DT(kind, size, order) ==
    [kind |-> kind, size |-> size,
     order |-> IF size = 1 THEN "|" ELSE order,
     shape |-> <<>>, fields |-> <<>>]

\* numpy.dtype.newbyteorder: one-byte items keep "|", the fields of a record
\* are changed one by one
newbyteorder(dt, order) ==
    LET item(d) == IF d.order = "|" THEN d ELSE [d EXCEPT !.order = order]
    IN  IF dt.fields = <<>> THEN item(dt)
        ELSE [dt EXCEPT !.fields = [i \in DOMAIN dt.fields |->
                        [dt.fields[i] EXCEPT !.dt = item(dt.fields[i].dt)]]]

\* numpy.dtype((base, dims))
SubArray(dt, dims) == [dt EXCEPT !.shape = dims]

\* numpy.dtype([(name, dtype), ...])
RecordDType(fields) ==
    [kind |-> "V", size |-> 0, order |-> "|", shape |-> <<>>, fields |-> fields]

\* numpy.dtype(numpy.long).itemsize on the LP64 platforms uproot runs on
LongItemSize == 8

NotNumerical == [exc |-> "_NotNumerical"]

IsDType(x) == "kind" \in DOMAIN x

ftype2dtype(fType) ==
    IF fType = kBool THEN DT("b", 1, "|")
    ELSE IF fType = kChar THEN DT("i", 1, "|")
    ELSE IF fType = kUChar THEN DT("u", 1, "|")
    ELSE IF fType = kShort THEN DT("i", 2, ">")
    ELSE IF fType = kUShort THEN DT("u", 2, ">")
    ELSE IF fType = kInt THEN DT("i", 4, ">")
    ELSE IF fType \in {kBits, kUInt, kCounter} THEN DT("u", 4, ">")
    ELSE IF fType = kLong THEN DT("i", LongItemSize, ">")
    ELSE IF fType = kULong THEN DT("u", LongItemSize, ">")
    ELSE IF fType = kLong64 THEN DT("i", 8, ">")
    ELSE IF fType = kULong64 THEN DT("u", 8, ">")
    ELSE IF fType = kFloat THEN DT("f", 4, ">")
    ELSE IF fType = kDouble THEN DT("f", 8, ">")
    ELSE NotNumerical

leaf2dtype(leaf) ==
    IF leaf.cls = "TLeafO" THEN DT("b", 1, "|")
    ELSE IF leaf.cls = "TLeafB"
        THEN (IF leaf.fIsUnsigned THEN DT("u", 1, "|") ELSE DT("i", 1, "|"))
    ELSE IF leaf.cls = "TLeafS"
        THEN (IF leaf.fIsUnsigned THEN DT("u", 2, "=") ELSE DT("i", 2, "="))
    ELSE IF leaf.cls = "TLeafI"
        THEN (IF leaf.fIsUnsigned THEN DT("u", 4, "=") ELSE DT("i", 4, "="))
    ELSE IF leaf.cls = "TLeafL"
        THEN (IF leaf.fIsUnsigned THEN DT("u", 8, "=") ELSE DT("i", 8, "="))
    ELSE IF leaf.cls = "TLeafF" THEN DT("f", 4, "=")
    ELSE IF leaf.cls = "TLeafD" THEN DT("f", 8, "=")
    ELSE IF leaf.cls = "TLeafElement" THEN ftype2dtype(leaf.fType)
    ELSE NotNumerical

(***************************************************************************)
(* Leaf titles and the two regular expressions of interpret.               *)
(***************************************************************************)
IsBracket(c) == c \in {"[", "]"}

IsDigit(c) == c \in {"0", "1", "2", "3", "4", "5", "6", "7", "8", "9"}

DigitVal(c) ==
    CASE c = "0" -> 0 [] c = "1" -> 1 [] c = "2" -> 2 [] c = "3" -> 3
      [] c = "4" -> 4 [] c = "5" -> 5 [] c = "6" -> 6 [] c = "7" -> 7
      [] c = "8" -> 8 [] c = "9" -> 9

\* the end of the longest run of characters satisfying "not a bracket"
\* that starts at position i (i - 1 when the run is empty)
RECURSIVE PlainRunEnd(_, _)
PlainRunEnd(s, i) ==
    IF i <= Len(s) /\ ~IsBracket(s[i]) THEN PlainRunEnd(s, i + 1) ELSE i - 1

RECURSIVE DigitRunEnd(_, _)
DigitRunEnd(s, i) ==
    IF i <= Len(s) /\ IsDigit(s[i]) THEN DigitRunEnd(s, i + 1) ELSE i - 1

\* int(x) of a run of decimal digits s[i..j]
RECURSIVE IntOf(_, _, _)
IntOf(s, i, j) ==
    IF j < i THEN 0 ELSE 10 * IntOf(s, i, j - 1) + DigitVal(s[j])

\* interpret._titlehasdims.match(title): ^([^\[\]]+)(\[[^\[\]]+\])+
titlehasdims(s) ==
    LET k == PlainRunEnd(s, 1)
        j == PlainRunEnd(s, k + 2)
    IN  /\ k >= 1
        /\ k + 1 <= Len(s) /\ s[k + 1] = "["
        /\ j >= k + 2
        /\ j + 1 <= Len(s) /\ s[j + 1] = "]"

\* re.findall(interpret._itemdimpattern, title) from position i on, each
\* match converted by int: \[([1-9][0-9]*)\]
RECURSIVE itemdims(_, _)
itemdims(s, i) ==
    IF i > Len(s) THEN <<>>
    ELSE LET j == DigitRunEnd(s, i + 1)
         IN  IF /\ s[i] = "["
                /\ j >= i + 1
                /\ s[i + 1] # "0"
                /\ j + 1 <= Len(s) /\ s[j + 1] = "]"
             THEN <<IntOf(s, i + 1, j)>> \o itemdims(s, j + 2)
             ELSE itemdims(s, i + 1)

\* lines 115-119 without the test of line 118
TitleDims_unmatched(title) == itemdims(title, 1)

\* lines 115-119: dims of a single-leaf column
TitleDims(title) ==
    IF titlehasdims(title) THEN itemdims(title, 1) ELSE <<>>

(***************************************************************************)
(* Interpretations (uproot.interp.numerical, jagged, objects, wrapped):    *)
(* the values interpret returns, as the calls in auto.py construct them.   *)
(***************************************************************************)
None == [plan |-> "None"]

Raised(e) == [plan |-> "raise", error |-> e]

Pending == [plan |-> "pending"]

asdtype(fromdtype, todtype) ==
    [plan |-> "asdtype", fromdtype |-> fromdtype, todtype |-> todtype]

\* asdtype(fromdtype) with todtype left to its default, the native-order
\* form of fromdtype
asdtype1(fromdtype) == asdtype(fromdtype, newbyteorder(fromdtype, "="))

asdouble32(low, high, numbits, fromdims, todims) ==
    [plan |-> "asdouble32", low |-> low, high |-> high, numbits |-> numbits,
     fromdims |-> fromdims, todims |-> todims]

asjagged(content, skipbytes) ==
    [plan |-> "asjagged", content |-> content, skipbytes |-> skipbytes]

asstring(skipbytes) == [plan |-> "asstring", skipbytes |-> skipbytes]

asstlbitset(n) == [plan |-> "asstlbitset", bits |-> n]

asobj(cls, skipbytes) == [plan |-> "asobj", cls |-> cls, skipbytes |-> skipbytes]

aswrapped(content, methods) ==
    [plan |-> "aswrapped", content |-> content, methods |-> methods]

\* what asobj is given: a class of the registry, STLVector(x), STLString()
ClassRef(name) == [c |-> "class", name |-> name]

STLVector(x) == [c |-> "STLVector", of |-> x]

STLString == [c |-> "STLString"]

(***************************************************************************)
(* Numbers of the compressed-float expressions: exact rationals <<n, d>>   *)
(* and Python values q + p * pi tagged with their Python type.  A product  *)
(* or quotient that leaves the forms q + p * pi is outside the model; the  *)
(* expressions drawn below avoid them.                                     *)
(***************************************************************************)
Abs(x) == IF x < 0 THEN -x ELSE x

RECURSIVE GCD(_, _)
GCD(a, b) == IF b = 0 THEN a ELSE GCD(b, a % b)

Rat(n, d) ==
    LET g == GCD(Abs(n), Abs(d))
        s == IF d < 0 THEN -1 ELSE 1
    IN  <<(s * n) \div g, (s * d) \div g>>

RatAdd(x, y) == Rat(x[1] * y[2] + y[1] * x[2], x[2] * y[2])

RatNeg(x) == <<-x[1], x[2]>>

RatMul(x, y) == Rat(x[1] * y[1], x[2] * y[2])

RatDiv(x, y) == Rat(x[1] * y[2], x[2] * y[1])

RatZero == <<0, 1>>

\* floor of a rational, as a rational
RatFloor(x) == <<x[1] \div x[2], 1>>

PyVal(ty, q, p) == [ty |-> ty, q |-> q, p |-> p]

PyInt(n) == PyVal("int", <<n, 1>>, RatZero)

IsExc(x) == "exc" \in DOMAIN x

Exc(e) == [exc |-> e]

OutsideModel == <<>>[1]

\* the type of a binary operation's result: float as soon as one operand is
ArithType(a, b) == IF a.ty = "int" /\ b.ty = "int" THEN "int" ELSE "float"

PyAdd(a, b) == PyVal(ArithType(a, b), RatAdd(a.q, b.q), RatAdd(a.p, b.p))

PyNeg(a) == PyVal(a.ty, RatNeg(a.q), RatNeg(a.p))

PySub(a, b) == PyAdd(a, PyNeg(b))

PyMult(a, b) ==
    IF a.p # RatZero /\ b.p # RatZero THEN OutsideModel
    ELSE PyVal(ArithType(a, b), RatMul(a.q, b.q),
               RatAdd(RatMul(a.q, b.p), RatMul(a.p, b.q)))

\* float division; int / int is Python 2's floor division
PyDiv(a, b) ==
    IF b.p # RatZero THEN OutsideModel
    ELSE IF b.q = RatZero THEN Exc("ZeroDivisionError")
    ELSE IF ArithType(a, b) = "int"
        THEN PyVal("int", RatFloor(RatDiv(a.q, b.q)), RatZero)
    ELSE PyVal("float", RatDiv(a.q, b.q), RatDiv(a.p, b.q))

(***************************************************************************)
(* Python ast nodes of a bracketed expression.                             *)
(***************************************************************************)
Num(ty, q, p) == [node |-> "Num", ty |-> ty, q |-> q, p |-> p]

Name(id) == [node |-> "Name", id |-> id]

BinOp(left, op, right) ==
    [node |-> "BinOp", op |-> op, left |-> left, right |-> right]

UnaryOp(op, operand) == [node |-> "UnaryOp", op |-> op, operand |-> operand]

List(elts) == [node |-> "List", elts |-> elts]

Call == [node |-> "Call"]

ListComp == [node |-> "ListComp"]

\* lines 135-154: interpret.transform
RECURSIVE transform(_)
transform(node) ==
    IF node.node = "Name" /\ node.id = "pi"
        THEN Num("float", RatZero, <<1, 1>>)
    ELSE IF node.node = "Num"
        THEN (IF node.ty = "complex" THEN Exc("TypeError")
              ELSE Num("float", node.q, node.p))
    ELSE IF node.node = "BinOp" /\ node.op \in {"Add", "Sub", "Mult", "Div"}
        THEN LET l == transform(node.left)
                 r == transform(node.right)
             IN  IF IsExc(l) THEN l ELSE IF IsExc(r) THEN r
                 ELSE BinOp(l, node.op, r)
    ELSE IF node.node = "UnaryOp" /\ node.op = "USub"
        THEN LET o == transform(node.operand)
             IN  IF IsExc(o) THEN o ELSE UnaryOp(node.op, o)
    ELSE IF node.node = "List" /\ Len(node.elts) = 2
        THEN LET a == transform(node.elts[1])
                 b == transform(node.elts[2])
             IN  IF IsExc(a) THEN a ELSE IF IsExc(b) THEN b
                 ELSE List(<<a, b>>)
    ELSE IF node.node = "List" /\ Len(node.elts) = 3
                               /\ node.elts[3].node = "Num"
        THEN LET a == transform(node.elts[1])
                 b == transform(node.elts[2])
             IN  IF IsExc(a) THEN a ELSE IF IsExc(b) THEN b
                 ELSE List(<<a, b, node.elts[3]>>)
    ELSE Exc("Exception")

\* eval(compile(ast.Expression(node), ...)) of line 162 on the nodes
\* transform lets through
RECURSIVE pyeval(_)
pyeval(node) ==
    IF node.node = "Num" THEN PyVal(node.ty, node.q, node.p)
    ELSE IF node.node = "UnaryOp"
        THEN LET o == pyeval(node.operand)
             IN  IF IsExc(o) THEN o ELSE PyNeg(o)
    ELSE IF node.node = "BinOp"
        THEN LET l == pyeval(node.left)
                 r == pyeval(node.right)
             IN  IF IsExc(l) THEN l ELSE IF IsExc(r) THEN r
                 ELSE IF node.op = "Add" THEN PyAdd(l, r)
                 ELSE IF node.op = "Sub" THEN PySub(l, r)
                 ELSE IF node.op = "Mult" THEN PyMult(l, r)
                 ELSE PyDiv(l, r)
    ELSE LET vals == [i \in 1..Len(node.elts) |-> pyeval(node.elts[i])]
         IN  IF \E i \in 1..Len(vals) : IsExc(vals[i])
             THEN vals[CHOOSE i \in 1..Len(vals) :
                         /\ IsExc(vals[i])
                         /\ \A j \in 1..(i - 1) : ~IsExc(vals[j])]
             ELSE [ty |-> "list", items |-> vals]

(***************************************************************************)
(* Streamer titles: tokens "[" and "]", "txt" (other text), and "src",     *)
(* the text between brackets, carrying what ast.parse reads it as.         *)
(***************************************************************************)
NoAst == [node |-> "none"]

\* text between brackets that is no Python expression
Unparseable == [node |-> "unparseable"]

Tok(t) == [t |-> t, ast |-> NoAst]

Src(ast) == [t |-> "src", ast |-> ast]

(***************************************************************************)
(* Streamers (uproot.rootio): the class of branch._streamer and the        *)
(* attributes that class carries.  TStreamerInfo is a TNamed (fName,       *)
(* fTitle); the others are TStreamerElements (fName, fTitle, fType, fSize, *)
(* fTypeName), the STL ones with fSTLtype and fCtype besides.              *)
(***************************************************************************)
hasattr(streamer, attr) ==
    IF streamer.kind = "None" THEN FALSE
    ELSE IF attr \in {"fName", "fTitle"} THEN TRUE
    ELSE IF attr \in {"fType", "fSize", "fTypeName"}
        THEN streamer.kind # "TStreamerInfo"
    ELSE IF attr \in {"fSTLtype", "fCtype"}
        THEN streamer.kind \in {"TStreamerSTL", "TStreamerSTLstring"}
    ELSE FALSE

\* bytes.index(ch): the first position holding ch, 0 for ValueError
index(title, ch) ==
    IF \E i \in 1..Len(title) : title[i].t = ch
    THEN CHOOSE i \in 1..Len(title) :
            /\ title[i].t = ch
            /\ \A j \in 1..(i - 1) : title[j].t # ch
    ELSE 0

\* ast.parse(text).body[0].value of line 162
astparse(text) ==
    IF text = <<>> THEN Exc("IndexError")
    ELSE IF Len(text) = 2 /\ text[1].t = "[" /\ text[2].t = "]"
        THEN List(<<>>)
    ELSE IF Len(text) = 3 /\ text[1].t = "[" /\ text[2].t = "src"
                          /\ text[3].t = "]"
        THEN (IF text[2].ast = Unparseable THEN Exc("SyntaxError")
              ELSE text[2].ast)
    ELSE Exc("SyntaxError")

\* lines 163-168: the unpacking of the evaluated list
unpackspec(spec, dims) ==
    IF Len(spec.items) = 2
    THEN asdouble32(spec.items[1], spec.items[2], PyInt(32), dims, dims)
    ELSE asdouble32(spec.items[1], spec.items[2], spec.items[3], dims, dims)

\* lines 156-170 with the plain float plan also when the expression fails
double32_fallback(streamer, dims) ==
    LET left == index(streamer.fTitle, "[")
        right == index(streamer.fTitle, "]")
        plain == asdtype(SubArray(DT("f", 4, ">"), dims),
                         SubArray(DT("f", 8, "="), dims))
    IN  IF ~hasattr(streamer, "fTitle") \/ left = 0 \/ right = 0
        THEN plain
        ELSE LET parsed == astparse(SubSeq(streamer.fTitle, left, right))
                 tree == IF IsExc(parsed) THEN parsed ELSE transform(parsed)
                 spec == IF IsExc(tree) THEN tree ELSE pyeval(tree)
             IN  IF IsExc(spec) THEN plain ELSE unpackspec(spec, dims)

\* lines 156-170: the plan of a compressed-float leaf
double32(streamer, dims) ==
    LET left == index(streamer.fTitle, "[")
        right == index(streamer.fTitle, "]")
    IN  IF ~hasattr(streamer, "fTitle") \/ left = 0 \/ right = 0
        THEN asdtype(SubArray(DT("f", 4, ">"), dims),
                     SubArray(DT("f", 8, "="), dims))
        ELSE LET parsed == astparse(SubSeq(streamer.fTitle, left, right))
                 tree == IF IsExc(parsed) THEN parsed ELSE transform(parsed)
                 spec == IF IsExc(tree) THEN tree ELSE pyeval(tree)
             IN  IF IsExc(spec) THEN None ELSE unpackspec(spec, dims)

(***************************************************************************)
(* Type and class names, and the class registry branch._context.classes    *)
(* (a set of classes, each under its name).                                *)
(***************************************************************************)
N(chunk) == <<chunk>>

\* re.match(b"bitset<([1-9][0-9]*)>", name): int of the group, 0 for no match
bitsetmatch(name) ==
    LET j == DigitRunEnd(name, 2)
    IN  IF /\ Len(name) >= 1 /\ name[1] = "bitset<"
           /\ j >= 2
           /\ name[2] # "0"
           /\ j + 1 <= Len(name) /\ name[j + 1] = ">"
        THEN IntOf(name, 2, j)
        ELSE 0

\* lines 129-130: a trailing "*" dropped
stripstar(name) ==
    IF Len(name) >= 1 /\ name[Len(name)] = "*"
    THEN SubSeq(name, 1, Len(name) - 1)
    ELSE name

InClasses(classes, name) == \E c \in classes : c.name = name

GetClass(classes, name) == CHOOSE c \in classes : c.name = name

Fall == [plan |-> "fallthrough"]

(***************************************************************************)
(* interpret, lines 126-195: the numerical paths.                          *)
(***************************************************************************)
\* lines 127-132 with the pointer's skipbytes written as 4
objectpointer_tagged(b) ==
    IF b.streamer.kind = "TStreamerObjectPointer"
       /\ InClasses(b.classes, stripstar(b.streamer.fTypeName))
    THEN asobj(ClassRef(stripstar(b.streamer.fTypeName)), 4)
    ELSE Fall

\* lines 127-132
objectpointer(b) ==
    IF b.streamer.kind = "TStreamerObjectPointer"
       /\ InClasses(b.classes, stripstar(b.streamer.fTypeName))
    THEN asobj(ClassRef(stripstar(b.streamer.fTypeName)), 0)
    ELSE Fall

\* lines 173-178 with the dims left out of both layouts
leafplan_nodims(leaf, swapbytes, dims) ==
    LET dt == leaf2dtype(leaf)
        fromdtype == newbyteorder(dt, ">")
    IN  IF IsExc(dt) THEN dt
        ELSE IF swapbytes
            THEN asdtype(fromdtype, newbyteorder(fromdtype, "="))
        ELSE asdtype(fromdtype, fromdtype)

\* lines 173-178
leafplan(leaf, swapbytes, dims) ==
    LET dt == leaf2dtype(leaf)
        fromdtype == newbyteorder(dt, ">")
    IN  IF IsExc(dt) THEN dt
        ELSE IF swapbytes
            THEN asdtype(SubArray(fromdtype, dims),
                         SubArray(newbyteorder(fromdtype, "="), dims))
        ELSE asdtype(SubArray(fromdtype, dims), SubArray(fromdtype, dims))

\* lines 180-183
countedbyleaf(leaf, plan) ==
    IF leaf.fLeafCount = "None" THEN plan ELSE asjagged(plan, 0)

\* lines 126-183
singleleaf(b, swapbytes, dims) ==
    LET leaf == b.fLeaves[1]
        obj == objectpointer(b)
        plan == IF leaf.cls = "TLeafElement" /\ leaf.fType = kDouble32
                THEN double32(b.streamer, dims)
                ELSE leafplan(leaf, swapbytes, dims)
    IN  IF obj # Fall THEN obj
        ELSE IF IsExc(plan) \/ plan = None THEN plan
        ELSE countedbyleaf(leaf, plan)

\* lines 185-195
multileaf(b, swapbytes, dims) ==
    LET n == Len(b.fLeaves)
        dts == [i \in 1..n |-> leaf2dtype(b.fLeaves[i])]
        fromdtype == RecordDType([i \in 1..n |->
            [name |-> b.fLeaves[i].fName, dt |-> newbyteorder(dts[i], ">")]])
        todtype == IF swapbytes
            THEN RecordDType([i \in 1..n |->
                [name |-> b.fLeaves[i].fName, dt |-> newbyteorder(dts[i], "=")]])
            ELSE fromdtype
    IN  IF \E i \in 1..n : IsExc(dts[i]) THEN NotNumerical
        ELSE IF \A i \in 1..n : b.fLeaves[i].fLeafCount = "None"
            THEN asdtype(SubArray(fromdtype, dims), SubArray(todtype, dims))
        ELSE None

(***************************************************************************)
(* interpret, lines 197-397: the checks made once _NotNumerical is         *)
(* raised.  Each yields its interpretation, or Fall when control passes    *)
(* to the next one.                                                        *)
(***************************************************************************)
\* lines 199-200
childcounted(b) ==
    IF /\ Len(b.fBranches) > 0
       /\ \A i \in 1..Len(b.fBranches) :
            b.fBranches[i].nLeaves = 1 /\ b.fBranches[i].fLeafCount = "self"
    THEN asdtype1(DT("i", 4, ">"))
    ELSE Fall

\* lines 202-205
streamerobject(b) ==
    IF b.streamer.kind = "TStreamerObject"
       /\ InClasses(b.classes, b.streamer.fTypeName)
    THEN asobj(ClassRef(b.streamer.fTypeName), 0)
    ELSE Fall

\* lines 207-210
streamerinfo(b) ==
    IF b.streamer.kind = "TStreamerInfo"
       /\ InClasses(b.classes, b.streamer.fName)
    THEN asobj(ClassRef(b.streamer.fName), 0)
    ELSE Fall

Product(dims) ==
    LET RECURSIVE P(_)
        P(i) == IF i > Len(dims) THEN 1 ELSE dims[i] * P(i + 1)
    IN  P(1)

\* lines 216-231 without the override of lines 229-230
basictype_titledims(b, swapbytes, dims) ==
    LET fromdtype == ftype2dtype(b.streamer.fType)
        todtype == IF swapbytes THEN newbyteorder(fromdtype, "=") ELSE fromdtype
        fromdims == b.streamer.fSize \div fromdtype.size
        remainder == b.streamer.fSize % fromdtype.size
    IN  IF b.streamer.kind # "TStreamerBasicType" THEN Fall
        ELSE IF IsExc(fromdtype) THEN Fall
        ELSE IF remainder = 0
            THEN asdtype(SubArray(fromdtype, <<fromdims>>),
                         SubArray(todtype, dims))
        ELSE Fall

\* lines 216-231
basictype(b, swapbytes, dims) ==
    LET fromdtype == ftype2dtype(b.streamer.fType)
        todtype == IF swapbytes THEN newbyteorder(fromdtype, "=") ELSE fromdtype
        fromdims == b.streamer.fSize \div fromdtype.size
        remainder == b.streamer.fSize % fromdtype.size
        todims == IF Product(dims) # fromdims THEN <<fromdims>> ELSE dims
    IN  IF b.streamer.kind # "TStreamerBasicType" THEN Fall
        ELSE IF IsExc(fromdtype) THEN Fall
        ELSE IF remainder = 0
            THEN asdtype(SubArray(fromdtype, <<fromdims>>),
                         SubArray(todtype, todims))
        ELSE Fall

\* lines 233-245
basicpointer(b, swapbytes) ==
    LET fromdtype == ftype2dtype(b.streamer.fType - kOffsetP)
        todtype == IF swapbytes THEN newbyteorder(fromdtype, "=") ELSE fromdtype
    IN  IF b.streamer.kind # "TStreamerBasicPointer" THEN Fall
        ELSE IF ~(kOffsetP < b.streamer.fType /\ b.streamer.fType < kOffsetP + 20)
            THEN Fall
        ELSE IF IsExc(fromdtype) THEN Fall
        ELSE IF Len(b.fLeaves) = 1 /\ b.fLeaves[1].fLeafCount # "None"
            THEN asjagged(asdtype(fromdtype, todtype), 1)
        ELSE Fall

\* lines 247-254
strings(b) ==
    IF b.streamer.kind = "TStreamerString" THEN asstring(1)
    ELSE IF b.streamer.kind = "TStreamerSTLstring" THEN asstring(7)
    ELSE IF hasattr(b.streamer, "fType") /\ b.streamer.fType = kCharStar
        THEN asstring(4)
    ELSE Fall

\* streamerClass._recarray_dtype()
recarraydtype(cls) == RecordDType(cls.layout)

\* lines 278-283; the last branch reads the undefined name streamerclass
vectorofrecords(streamerClass) ==
    IF streamerClass.methods = "None"
        THEN asjagged(asdtype1(recarraydtype(streamerClass)), 10)
    ELSE IF streamerClass.methods = "methods"
        THEN asjagged(aswrapped(asdtype1(recarraydtype(streamerClass)),
                                "_methods"), 10)
    ELSE Raised("NameError")

\* lines 266-283
vectorofclass(b) ==
    LET vec == b.vecstreamer
        bound == vec.hasPyclass \/ InClasses(b.classes, vec.fName)
        streamerClass == IF vec.hasPyclass THEN vec.pyclass
                         ELSE GetClass(b.classes, vec.fName)
    IN  IF vec.kind = "None" THEN Fall
        ELSE IF ~bound THEN Raised("UnboundLocalError")
        ELSE IF streamerClass.recarray # "ok"
            THEN asobj(STLVector(ClassRef(streamerClass.name)), 6)
        ELSE vectorofrecords(streamerClass)

\* lines 256-283
stlvector(b, swapbytes) ==
    LET fromdtype == ftype2dtype(b.streamer.fCtype)
    IN  IF ~(hasattr(b.streamer, "fSTLtype") /\ b.streamer.fSTLtype = kSTLvector)
            THEN Fall
        ELSE IF IsExc(fromdtype) THEN vectorofclass(b)
        ELSE IF swapbytes
            THEN asjagged(asdtype(fromdtype, newbyteorder(fromdtype, "=")), 10)
        ELSE asjagged(asdtype(fromdtype, fromdtype), 10)

\* getattr(branch._streamer, "fTypeName", None)
typename(streamer) ==
    IF hasattr(streamer, "fTypeName") THEN streamer.fTypeName ELSE <<"None">>

\* lines 285-288
typenamebitset(streamer) ==
    IF hasattr(streamer, "fTypeName") /\ bitsetmatch(streamer.fTypeName) # 0
    THEN asstlbitset(bitsetmatch(streamer.fTypeName))
    ELSE Fall

\* lines 290-313
typenamevector(tn) ==
    IF tn = N("vector<bool>")
        THEN asjagged(asdtype1(DT("b", 1, "|")), 10)
    ELSE IF tn = N("vector<char>")
        THEN asjagged(asdtype1(DT("i", 1, "=")), 10)
    ELSE IF tn = N("vector<unsigned char>")
        THEN asjagged(asdtype1(DT("u", 1, "=")), 10)
    ELSE IF tn = N("vector<short>")
        THEN asjagged(asdtype1(DT("i", 2, "=")), 10)
    ELSE IF tn = N("vector<unsigned short>")
        THEN asjagged(asdtype1(DT("u", 2, "=")), 10)
    ELSE IF tn = N("vector<int>")
        THEN asjagged(asdtype1(DT("i", 4, "=")), 10)
    ELSE IF tn = N("vector<unsigned int>")
        THEN asjagged(asdtype1(DT("u", 4, "=")), 10)
    ELSE IF tn = N("vector<long>")
        THEN asjagged(asdtype1(DT("i", 8, "=")), 10)
    ELSE IF tn = N("vector<unsigned long>")
        THEN asjagged(asdtype1(DT("u", 8, "=")), 10)
    ELSE IF tn = N("vector<float>")
        THEN asjagged(asdtype1(DT("f", 4, "=")), 10)
    ELSE IF tn = N("vector<double>")
        THEN asjagged(asdtype1(DT("f", 8, "=")), 10)
    ELSE IF tn = N("vector<string>")
        THEN asobj(STLVector(STLString), 6)
    ELSE Fall

\* lines 315-338 with the dtype of line 326 written as in line 301
typenamevectorvector_native(tn) ==
    IF tn = N("vector<vector<bool> >")
        THEN asobj(STLVector(STLVector(asdtype1(DT("b", 1, "|")))), 6)
    ELSE IF tn = N("vector<vector<char> >")
        THEN asobj(STLVector(STLVector(asdtype1(DT("i", 1, "=")))), 6)
    ELSE IF tn = N("vector<vector<unsigned char> >")
        THEN asobj(STLVector(STLVector(asdtype1(DT("u", 1, "=")))), 6)
    ELSE IF tn = N("vector<vector<short> >")
        THEN asobj(STLVector(STLVector(asdtype1(DT("i", 2, ">")))), 6)
    ELSE IF tn = N("vector<vector<unsigned short> >")
        THEN asobj(STLVector(STLVector(asdtype1(DT("u", 2, ">")))), 6)
    ELSE IF tn = N("vector<vector<int> >")
        THEN asobj(STLVector(STLVector(asdtype1(DT("i", 4, "=")))), 6)
    ELSE IF tn = N("vector<vector<unsigned int> >")
        THEN asobj(STLVector(STLVector(asdtype1(DT("u", 4, ">")))), 6)
    ELSE IF tn = N("vector<vector<long> >")
        THEN asobj(STLVector(STLVector(asdtype1(DT("i", 8, ">")))), 6)
    ELSE IF tn = N("vector<vector<unsigned long> >")
        THEN asobj(STLVector(STLVector(asdtype1(DT("u", 8, ">")))), 6)
    ELSE IF tn = N("vector<vector<float> >")
        THEN asobj(STLVector(STLVector(asdtype1(DT("f", 4, ">")))), 6)
    ELSE IF tn = N("vector<vector<double> >")
        THEN asobj(STLVector(STLVector(asdtype1(DT("f", 8, ">")))), 6)
    ELSE IF tn = N("vector<vector<string> >")
        THEN asobj(STLVector(STLVector(STLString)), 6)
    ELSE Fall

\* lines 315-338
typenamevectorvector(tn) ==
    IF tn = N("vector<vector<bool> >")
        THEN asobj(STLVector(STLVector(asdtype1(DT("b", 1, "|")))), 6)
    ELSE IF tn = N("vector<vector<char> >")
        THEN asobj(STLVector(STLVector(asdtype1(DT("i", 1, "=")))), 6)
    ELSE IF tn = N("vector<vector<unsigned char> >")
        THEN asobj(STLVector(STLVector(asdtype1(DT("u", 1, "=")))), 6)
    ELSE IF tn = N("vector<vector<short> >")
        THEN asobj(STLVector(STLVector(asdtype1(DT("i", 2, ">")))), 6)
    ELSE IF tn = N("vector<vector<unsigned short> >")
        THEN asobj(STLVector(STLVector(asdtype1(DT("u", 2, ">")))), 6)
    ELSE IF tn = N("vector<vector<int> >")
        THEN asobj(STLVector(STLVector(asdtype1(DT("i", 4, ">")))), 6)
    ELSE IF tn = N("vector<vector<unsigned int> >")
        THEN asobj(STLVector(STLVector(asdtype1(DT("u", 4, ">")))), 6)
    ELSE IF tn = N("vector<vector<long> >")
        THEN asobj(STLVector(STLVector(asdtype1(DT("i", 8, ">")))), 6)
    ELSE IF tn = N("vector<vector<unsigned long> >")
        THEN asobj(STLVector(STLVector(asdtype1(DT("u", 8, ">")))), 6)
    ELSE IF tn = N("vector<vector<float> >")
        THEN asobj(STLVector(STLVector(asdtype1(DT("f", 4, ">")))), 6)
    ELSE IF tn = N("vector<vector<double> >")
        THEN asobj(STLVector(STLVector(asdtype1(DT("f", 8, ">")))), 6)
    ELSE IF tn = N("vector<vector<string> >")
        THEN asobj(STLVector(STLVector(STLString)), 6)
    ELSE Fall

\* lines 340-342
classnamebitset(cn) ==
    IF bitsetmatch(cn) # 0 THEN asstlbitset(bitsetmatch(cn)) ELSE Fall

\* lines 344-345
classnamestring(cn) ==
    IF cn = N("string") THEN asstring(1) ELSE Fall

\* lines 347-370
classnamevector(cn) ==
    IF cn = N("vector<bool>")
        THEN asjagged(asdtype1(DT("b", 1, "|")), 10)
    ELSE IF cn = N("vector<char>")
        THEN asjagged(asdtype1(DT("i", 1, "=")), 10)
    ELSE IF cn = N("vector<unsigned char>")
        THEN asjagged(asdtype1(DT("u", 1, "=")), 10)
    ELSE IF cn = N("vector<short>")
        THEN asjagged(asdtype1(DT("i", 2, "=")), 10)
    ELSE IF cn = N("vector<unsigned short>")
        THEN asjagged(asdtype1(DT("u", 2, "=")), 10)
    ELSE IF cn = N("vector<int>")
        THEN asjagged(asdtype1(DT("i", 4, "=")), 10)
    ELSE IF cn = N("vector<unsigned int>")
        THEN asjagged(asdtype1(DT("u", 4, "=")), 10)
    ELSE IF cn = N("vector<long>")
        THEN asjagged(asdtype1(DT("i", 8, "=")), 10)
    ELSE IF cn = N("vector<unsigned long>")
        THEN asjagged(asdtype1(DT("u", 8, "=")), 10)
    ELSE IF cn = N("vector<float>")
        THEN asjagged(asdtype1(DT("f", 4, "=")), 10)
    ELSE IF cn = N("vector<double>")
        THEN asjagged(asdtype1(DT("f", 8, "=")), 10)
    ELSE IF cn = N("vector<string>")
        THEN asobj(STLVector(STLString), 6)
    ELSE Fall

\* lines 372-395
classnamevectorvector(cn) ==
    IF cn = N("vector<vector<bool> >")
        THEN asobj(STLVector(STLVector(asdtype1(DT("b", 1, "|")))), 6)
    ELSE IF cn = N("vector<vector<char> >")
        THEN asobj(STLVector(STLVector(asdtype1(DT("i", 1, "=")))), 6)
    ELSE IF cn = N("vector<vector<unsigned char> >")
        THEN asobj(STLVector(STLVector(asdtype1(DT("u", 1, "=")))), 6)
    ELSE IF cn = N("vector<vector<short> >")
        THEN asobj(STLVector(STLVector(asdtype1(DT("i", 2, ">")))), 6)
    ELSE IF cn = N("vector<vector<unsigned short> >")
        THEN asobj(STLVector(STLVector(asdtype1(DT("u", 2, ">")))), 6)
    ELSE IF cn = N("vector<vector<int> >")
        THEN asobj(STLVector(STLVector(asdtype1(DT("i", 4, ">")))), 6)
    ELSE IF cn = N("vector<vector<unsigned int> >")
        THEN asobj(STLVector(STLVector(asdtype1(DT("u", 4, ">")))), 6)
    ELSE IF cn = N("vector<vector<long> >")
        THEN asobj(STLVector(STLVector(asdtype1(DT("i", 8, ">")))), 6)
    ELSE IF cn = N("vector<vector<unsigned long> >")
        THEN asobj(STLVector(STLVector(asdtype1(DT("u", 8, ">")))), 6)
    ELSE IF cn = N("vector<vector<float> >")
        THEN asobj(STLVector(STLVector(asdtype1(DT("f", 4, ">")))), 6)
    ELSE IF cn = N("vector<vector<double> >")
        THEN asobj(STLVector(STLVector(asdtype1(DT("f", 8, ">")))), 6)
    ELSE IF cn = N("vector<vector<string> >")
        THEN asobj(STLVector(STLVector(STLString)), 6)
    ELSE Fall

\* the first of the checks, in their order, that does not fall through
RECURSIVE firstmatch(_, _)
firstmatch(checks, i) ==
    IF i > Len(checks) THEN None
    ELSE IF checks[i] # Fall THEN checks[i]
    ELSE firstmatch(checks, i + 1)

\* lines 215-395: the checks made for a TLeafElement
leafelement(b, swapbytes, dims) ==
    firstmatch(<<basictype(b, swapbytes, dims),
                 basicpointer(b, swapbytes),
                 strings(b),
                 stlvector(b, swapbytes),
                 typenamebitset(b.streamer),
                 typenamevector(typename(b.streamer)),
                 typenamevectorvector(typename(b.streamer)),
                 classnamebitset(b.fClassName),
                 classnamestring(b.fClassName),
                 classnamevector(b.fClassName),
                 classnamevectorvector(b.fClassName)>>, 1)

\* lines 198-397: the handler of _NotNumerical
structural(b, swapbytes, dims) ==
    IF Len(b.fLeaves) # 1 THEN None
    ELSE IF childcounted(b) # Fall THEN childcounted(b)
    ELSE IF streamerobject(b) # Fall THEN streamerobject(b)
    ELSE IF streamerinfo(b) # Fall THEN streamerinfo(b)
    ELSE IF b.fLeaves[1].cls = "TLeafC" THEN asstring(1)
    ELSE IF b.fLeaves[1].cls = "TLeafElement"
        THEN leafelement(b, swapbytes, dims)
    ELSE None

\* lines 114-397
interpret(b, swapbytes) ==
    LET n == Len(b.fLeaves)
        dims == IF n = 1 THEN TitleDims(b.fLeaves[1].fTitle) ELSE <<>>
        tried == IF n = 1 THEN singleleaf(b, swapbytes, dims)
                 ELSE IF n > 1 THEN multileaf(b, swapbytes, dims)
                 ELSE None
    IN  IF n # 1 /\ \E i \in 1..n : titlehasdims(b.fLeaves[i].fTitle) THEN None
        ELSE IF IsExc(tried) THEN structural(b, swapbytes, dims)
        ELSE tried

(***************************************************************************)
(* Columns.  A leaf, a child branch, a streamer, a class of the registry   *)
(* and the branch that holds them, with the attributes interpret reads.    *)
(***************************************************************************)
Leaf(cls, fIsUnsigned, fType, fTitle, fLeafCount, fName) ==
    [cls |-> cls, fIsUnsigned |-> fIsUnsigned, fType |-> fType,
     fTitle |-> fTitle, fLeafCount |-> fLeafCount, fName |-> fName]

Child(nLeaves, fLeafCount) == [nLeaves |-> nLeaves, fLeafCount |-> fLeafCount]

Streamer(kind, fName, fTitle, fTypeName, fType, fSize, fSTLtype, fCtype) ==
    [kind |-> kind, fName |-> fName, fTitle |-> fTitle, fTypeName |-> fTypeName,
     fType |-> fType, fSize |-> fSize, fSTLtype |-> fSTLtype, fCtype |-> fCtype]

NoStreamer == Streamer("None", <<>>, <<>>, <<>>, 0, 0, 0, 0)

Class(name, recarray, methods) ==
    [name |-> name, recarray |-> recarray, methods |-> methods,
     layout |-> <<[name |-> N("fE"), dt |-> DT("f", 8, ">")],
                  [name |-> N("fId"), dt |-> DT("i", 4, ">")]>>]

VecStreamer(hasPyclass, pyclass, fName) ==
    [kind |-> "TStreamerInfo", hasPyclass |-> hasPyclass, pyclass |-> pyclass,
     fName |-> fName]

NoVecStreamer ==
    [kind |-> "None", hasPyclass |-> FALSE,
     pyclass |-> Class(<<>>, "AttributeError", "None"), fName |-> <<>>]

Branch(fLeaves, fBranches, streamer, fClassName, classes, vecstreamer) ==
    [fLeaves |-> fLeaves, fBranches |-> fBranches, streamer |-> streamer,
     fClassName |-> fClassName, classes |-> classes, vecstreamer |-> vecstreamer]

(***************************************************************************)
(* The columns drawn: leaf titles, names, streamers and registries.        *)
(***************************************************************************)
TitleParts ==
    {<<"x">>, <<"[", "3", "]">>, <<"[", "0", "]">>, <<"[", "x", "]">>,
     <<"[", "0", "3", "]">>, <<"[", "2", "0", "]">>, <<"[">>, <<"]">>,
     <<"[", "]">>, <<"3">>}

\* every title made of at most n parts
RECURSIVE TitlesOf(_)
TitlesOf(n) ==
    IF n = 0 THEN {<<>>}
    ELSE LET T == TitlesOf(n - 1)
         IN  T \cup {t \o p : t \in T, p \in TitleParts}

FewTitles ==
    {<<"x">>, <<"x", "[", "3", "]">>, <<"x", "[", "2", "]", "[", "2", "]">>,
     <<"x", "[", "n", "]", "[", "3", "]">>}

PrimitiveLeafClasses ==
    {"TLeafO", "TLeafB", "TLeafS", "TLeafI", "TLeafL", "TLeafF", "TLeafD"}

PrimitiveCodes ==
    {kBool, kChar, kUChar, kShort, kUShort, kInt, kBits, kUInt, kCounter,
     kLong, kULong, kLong64, kULong64, kFloat, kDouble}

LeafCounts == {"None", "n"}

VectorName ==
    [bool |-> "vector<bool>", char |-> "vector<char>",
     unsigned_char |-> "vector<unsigned char>", short |-> "vector<short>",
     unsigned_short |-> "vector<unsigned short>", int |-> "vector<int>",
     unsigned_int |-> "vector<unsigned int>", long |-> "vector<long>",
     unsigned_long |-> "vector<unsigned long>", float |-> "vector<float>",
     double |-> "vector<double>", string |-> "vector<string>"]

VectorVectorName ==
    [bool |-> "vector<vector<bool> >", char |-> "vector<vector<char> >",
     unsigned_char |-> "vector<vector<unsigned char> >",
     short |-> "vector<vector<short> >",
     unsigned_short |-> "vector<vector<unsigned short> >",
     int |-> "vector<vector<int> >",
     unsigned_int |-> "vector<vector<unsigned int> >",
     long |-> "vector<vector<long> >",
     unsigned_long |-> "vector<vector<unsigned long> >",
     float |-> "vector<vector<float> >", double |-> "vector<vector<double> >",
     string |-> "vector<vector<string> >"]

ElementTypes == DOMAIN VectorName

\* names carrying one of the patterns of lines 285-395
PatternNames ==
    {N(VectorName[t]) : t \in ElementTypes}
    \cup {N(VectorVectorName[t]) : t \in ElementTypes}
    \cup {<<"bitset<", "2", "4", ">">>, <<"bitset<", "3", ">", "x">>, N("string")}

\* names carrying none
PlainNames ==
    {<<>>, N("TAxis"), N("vector<TAxis>"), <<"bitset<", "0", ">">>,
     <<"bitset<", "0", "2", ">">>, <<"bitset<", ">">>, <<"bitset<", "2">>}

TAxis == Class(N("TAxis"), "AttributeError", "None")

Registries == {{}, {TAxis}}

ElementClasses ==
    {Class(N("Hit"), r, m) :
        r \in {"ok", "AttributeError", "ValueError"},
        m \in {"None", "methods", "methods+arraymethods"}}

OneLeaf(cls, fType, fTitle, fLeafCount) ==
    <<Leaf(cls, FALSE, fType, fTitle, fLeafCount, N("x"))>>

ElementLeaf(fType, fTitle, fLeafCount) ==
    OneLeaf("TLeafElement", fType, fTitle, fLeafCount)

Element(kind, fTypeName, fType, fSize) ==
    Streamer(kind, N("x"), <<Tok("txt")>>, fTypeName, fType, fSize, 0, 0)

STL(fTypeName, fSTLtype, fCtype) ==
    Streamer("TStreamerSTL", N("x"), <<Tok("txt")>>, fTypeName, 500, 24,
             fSTLtype, fCtype)

\* plain branches: one leaf of a primitive class, no streamer
PlainBranches ==
    {Branch(<<Leaf(c, u, 0, t, lc, N("x"))>>, <<>>, NoStreamer, <<>>, {},
            NoVecStreamer) :
        c \in PrimitiveLeafClasses, u \in BOOLEAN, t \in FewTitles,
        lc \in LeafCounts}

\* members of basic type: a TLeafElement with a code of the table
BasicBranches ==
    {Branch(ElementLeaf(code, t, lc), <<>>,
            IF described
            THEN Element("TStreamerBasicType", N("x"), code, ftype2dtype(code).size)
            ELSE NoStreamer,
            <<>>, {}, NoVecStreamer) :
        code \in PrimitiveCodes, t \in FewTitles, lc \in LeafCounts,
        described \in BOOLEAN}

(***************************************************************************)
(* Compressed floats: the expressions between the brackets of a streamer   *)
(* title, and the titles.                                                  *)
(***************************************************************************)
Lit(n) == Num("int", <<n, 1>>, RatZero)

Flt(n, d) == Num("float", <<n, d>>, RatZero)

Cplx == Num("complex", <<1, 1>>, RatZero)

Pi == Name("pi")

GoodAtoms == {Lit(0), Lit(2), Flt(8, 5), Pi}

ArithOps == {"Add", "Sub", "Mult", "Div"}

\* the operations on two atoms whose value is of the form q + p * pi
AtomOps ==
    {BinOp(a, op, c) : a \in GoodAtoms, op \in ArithOps, c \in GoodAtoms}
    \ ({BinOp(Pi, "Mult", Pi)} \cup {BinOp(a, "Div", Pi) : a \in GoodAtoms})

Elements ==
    GoodAtoms
    \cup {Name("x"), Call, Cplx}
    \cup {UnaryOp("USub", a) : a \in GoodAtoms}
    \cup {UnaryOp("UAdd", Lit(2)), UnaryOp("USub", Name("x"))}
    \cup AtomOps
    \cup {BinOp(Lit(2), "Pow", Lit(2)), BinOp(Lit(2), "Add", Call)}
    \cup {BinOp(UnaryOp("USub", Pi), "Div", Lit(2)),
          BinOp(BinOp(Lit(2), "Mult", Pi), "Sub", Flt(8, 5)),
          UnaryOp("USub", BinOp(Pi, "Div", Lit(2))),
          BinOp(Lit(2), "Div", BinOp(Lit(2), "Sub", Lit(2)))}

Anchors == {Flt(8, 5), Pi}

Pairs ==
    {<<a, c>> : a \in Elements, c \in Anchors}
    \cup {<<a, c>> : a \in Anchors, c \in Elements}

Thirds == {Lit(16), Flt(3, 2), Cplx, Pi, UnaryOp("USub", Lit(16))}

Lists ==
    {List(p) : p \in Pairs}
    \cup {List(p \o <<t>>) : p \in Pairs, t \in Thirds}
    \cup {List(<<>>), List(<<Lit(0)>>), List(<<Lit(0), Lit(2), Lit(16), Lit(16)>>)}

\* what ast.parse makes of the text between the brackets
Sources == Lists \cup {ListComp, Unparseable}

FewSources ==
    {List(<<Lit(0), Flt(8, 5), Lit(16)>>),
     List(<<UnaryOp("USub", Pi), Pi>>),
     List(<<Lit(0), Call>>),
     List(<<Lit(0), Lit(2), Flt(3, 2)>>)}

\* the bracketed text alone and inside other text
Bracketed(src) ==
    {<<Tok("["), Src(src), Tok("]")>>,
     <<Tok("txt"), Tok("["), Src(src), Tok("]"), Tok("txt")>>}

\* titles with no bracketed text, or whose first "]" is not its end
Unbracketed ==
    {<<>>, <<Tok("txt")>>, <<Tok("["), Tok("txt")>>, <<Tok("txt"), Tok("]")>>}

Misbracketed(src) ==
    {<<Tok("]"), Tok("["), Src(src), Tok("]")>>,
     <<Tok("["), Tok("]"), Tok("["), Src(src), Tok("]")>>,
     <<Tok("["), Tok("["), Src(src), Tok("]")>>,
     <<Tok("["), Tok("txt"), Tok("]")>>}

Double32Streamer(fTitle) ==
    Streamer("TStreamerBasicType", N("x"), fTitle, N("Double32_t"), kDouble32, 8, 0, 0)

Double32Titles(srcs) ==
    UNION {Bracketed(src) : src \in srcs}
    \cup Unbracketed
    \cup Misbracketed(List(<<Lit(0), Flt(8, 5)>>))

Double32Branches(srcs, titles) ==
    {Branch(ElementLeaf(kDouble32, t, lc), <<>>, s, <<>>, {}, NoVecStreamer) :
        t \in titles, lc \in LeafCounts,
        s \in {NoStreamer} \cup {Double32Streamer(ft) : ft \in Double32Titles(srcs)}}

(***************************************************************************)
(* Columns whose leaf is not numerical.                                    *)
(***************************************************************************)
Children ==
    {<<>>, <<Child(1, "self")>>, <<Child(1, "self"), Child(1, "self")>>,
     <<Child(1, "self"), Child(1, "other")>>, <<Child(2, "self")>>,
     <<Child(1, "None")>>}

OtherLeaves ==
    {OneLeaf("TLeafElement", kObject, <<"x">>, "None"),
     OneLeaf("TLeafC", 0, <<"x">>, "None"),
     OneLeaf("TLeafObject", 0, <<"x">>, "None")}

\* branches with children, counted by the branch's leaf or not
ParentBranches ==
    {Branch(l, ch, s, cn, {}, NoVecStreamer) :
        l \in OtherLeaves, ch \in Children,
        s \in {NoStreamer, Element("TStreamerObjectAny", N("vector<int>"), kObject, 0)},
        cn \in {<<>>, N("string")}}

ObjectStreamers ==
    {Element(k, tn, kObject, 0) :
        k \in {"TStreamerObject", "TStreamerObjectPointer"},
        tn \in {N("TAxis"), <<"TAxis", "*">>, N("TH1"), <<"TH1", "*">>}}
    \cup {Streamer("TStreamerInfo", nm, <<Tok("txt")>>, <<>>, 0, 0, 0, 0) :
            nm \in {N("TAxis"), N("TH1")}}

ObjectBranches ==
    {Branch(l, ch, s, cn, classes, NoVecStreamer) :
        l \in OtherLeaves \cup {OneLeaf("TLeafI", 0, <<"x">>, "None")},
        ch \in {<<>>, <<Child(1, "self")>>},
        s \in ObjectStreamers, cn \in {<<>>, N("string")},
        classes \in Registries}

\* members declared as a basic type, of every byte size up to MaxSize
BasicTypeBranches ==
    {Branch(ElementLeaf(kOffsetL + code, t, "None"), <<>>,
            Element("TStreamerBasicType", tn, code, size), cn, {}, NoVecStreamer) :
        code \in {kInt, kShort, kChar, kDouble, kObject}, size \in 0..MaxSize,
        t \in FewTitles, tn \in {N("int"), N("vector<int>")},
        cn \in {<<>>, <<"bitset<", "2", "4", ">">>}}

BasicPointerBranches ==
    {Branch(ElementLeaf(kObject, t, lc), <<>>,
            Element("TStreamerBasicPointer", N("int*"), code, 4), cn, {},
            NoVecStreamer) :
        code \in {kOffsetP, kOffsetP + kInt, kOffsetP + kDouble, kOffsetP + 10,
                  kOffsetP + 19, kOffsetP + 20, kInt},
        t \in FewTitles, lc \in LeafCounts, cn \in {<<>>, N("vector<int>")}}

StringStreamers ==
    {Element("TStreamerString", N("TString"), 65, 24),
     Streamer("TStreamerSTLstring", N("x"), <<Tok("txt")>>, N("string"), 500, 32,
              365, 365),
     Element("TStreamerObjectAny", N("char*"), kCharStar, 8),
     Element("TStreamerBasicType", N("char*"), kCharStar, 8)}

StringBranches ==
    {Branch(l, <<>>, s, cn, {}, NoVecStreamer) :
        l \in OtherLeaves, s \in StringStreamers,
        cn \in {<<>>, N("string"), N("vector<int>")}}

VecStreamers ==
    {VecStreamer(TRUE, c, c.name) : c \in ElementClasses}
    \cup {VecStreamer(FALSE, TAxis, N("Hit"))}

ElementRegistries == Registries \cup {{c} : c \in ElementClasses}

STLStreamers ==
    {STL(tn, stl, ctype) :
        tn \in {N("vector<int>"), N("vector<Hit>"), N("vector<vector<int> >")},
        stl \in {kSTLvector, kSTLlist}, ctype \in {kInt, kBool, kObject}}

\* members declared as STL containers
STLBranches ==
    {Branch(ElementLeaf(kObject, <<"x">>, "None"), <<>>, s, cn, classes, vec) :
        s \in STLStreamers, cn \in {<<>>, N("vector<int>")},
        classes \in ElementRegistries, vec \in VecStreamers \cup {NoVecStreamer}}

AnyNames == PatternNames \cup PlainNames

\* members known by the text of their type name or class name only
PatternBranches ==
    {Branch(ElementLeaf(kObject, <<"x">>, "None"), <<>>,
            Element("TStreamerObjectAny", tn, kObject, 24), cn, {}, NoVecStreamer) :
        tn \in AnyNames, cn \in AnyNames}
    \cup {Branch(ElementLeaf(kObject, <<"x">>, "None"), <<>>, s, cn, {},
                 NoVecStreamer) :
            s \in {NoStreamer,
                   Streamer("TStreamerInfo", N("TH1"), <<Tok("txt")>>, <<>>, 0, 0, 0, 0)},
            cn \in AnyNames}

MultiLeaves(fName) ==
    {Leaf(c[1], FALSE, c[2], t, lc, fName) :
        c \in {<<"TLeafI", 0>>, <<"TLeafF", 0>>, <<"TLeafElement", kShort>>,
               <<"TLeafElement", kDouble32>>, <<"TLeafC", 0>>},
        t \in {<<"x">>, <<"x", "[", "3", "]">>}, lc \in LeafCounts}

\* branches of several leaves
MultiLeafBranches ==
    {Branch(<<l1, l2>>, <<>>, NoStreamer, <<>>, {}, NoVecStreamer) :
        l1 \in MultiLeaves(N("x")), l2 \in MultiLeaves(N("y"))}

Columns ==
    PlainBranches \cup BasicBranches
    \cup Double32Branches(FewSources, FewTitles)
    \cup ParentBranches \cup ObjectBranches \cup BasicTypeBranches
    \cup BasicPointerBranches \cup StringBranches \cup STLBranches
    \cup PatternBranches \cup MultiLeafBranches

\* plain branches under every title of at most MaxParts parts
TitleColumns ==
    {Branch(<<Leaf(c, FALSE, 0, t, lc, N("x"))>>, <<>>, NoStreamer, <<>>, {},
            NoVecStreamer) :
        c \in {"TLeafI", "TLeafD"}, t \in TitlesOf(MaxParts), lc \in LeafCounts}

\* compressed floats under every expression drawn
Double32Columns ==
    Double32Branches(Sources, {<<"x">>, <<"x", "[", "3", "]">>})

(***************************************************************************)
(* The state: a column, and what interpret returned for it under each      *)
(* value of swapbytes (Pending before the call).                           *)
(***************************************************************************)
NoCalls == [swapbytes \in BOOLEAN |-> Pending]

Init == branch \in Columns /\ out = NoCalls

InitTitle == branch \in TitleColumns /\ out = NoCalls

InitDouble32 == branch \in Double32Columns /\ out = NoCalls

\* interpret(branch, swapbytes)
Interpret(swapbytes) ==
    /\ out' = [out EXCEPT ![swapbytes] = interpret(branch, swapbytes)]
    /\ UNCHANGED branch

Next == \E swapbytes \in BOOLEAN : Interpret(swapbytes)

Spec == Init /\ [][Next]_vars

SpecTitle == InitTitle /\ [][Next]_vars

SpecDouble32 == InitDouble32 /\ [][Next]_vars

(***************************************************************************)
(* What the claims speak of.                                               *)
(***************************************************************************)
Called(swapbytes) == out[swapbytes].plan # "pending"

\* the layout a Counted wraps, through any Wrapped marker
RECURSIVE Layout(_)
Layout(plan) == IF plan.plan = "aswrapped" THEN Layout(plan.content) ELSE plan

\* the dims a Scalar or ScaledFloat layout carries, source and destination
LayoutDims(plan) ==
    IF plan.plan = "asdtype" THEN <<plan.fromdtype.shape, plan.todtype.shape>>
    ELSE IF plan.plan = "asdouble32" THEN <<plan.fromdims, plan.todims>>
    ELSE <<<<>>, <<>>>>

\* the bracketed segments of a title: (i, j) with "[" at i, "]" at j and
\* no bracket between
Segments(title) ==
    {ij \in (1..Len(title)) \X (1..Len(title)) :
        /\ ij[1] < ij[2]
        /\ title[ij[1]] = "[" /\ title[ij[2]] = "]"
        /\ \A k \in (ij[1] + 1)..(ij[2] - 1) : ~IsBracket(title[k])}

\* a segment holding decimal digits only, at least one
PurelyNumeric(title, ij) ==
    /\ ij[2] > ij[1] + 1
    /\ \A k \in (ij[1] + 1)..(ij[2] - 1) : IsDigit(title[k])

\* a segment holding a decimal numeral whose first digit is not 0
Numeral(title, ij) == PurelyNumeric(title, ij) /\ title[ij[1] + 1] # "0"

RECURSIVE Pow10(_)
Pow10(n) == IF n = 0 THEN 1 ELSE 10 * Pow10(n - 1)

\* the number a purely numeric segment writes
RECURSIVE DigitSum(_, _, _)
DigitSum(title, k, j) ==
    IF k >= j THEN 0
    ELSE DigitVal(title[k]) * Pow10(j - 1 - k) + DigitSum(title, k + 1, j)

SegmentValue(title, ij) == DigitSum(title, ij[1] + 1, ij[2])

\* the values of the segments of S, in title order
RECURSIVE InTitleOrder(_, _)
InTitleOrder(title, S) ==
    IF S = {} THEN <<>>
    ELSE LET first == CHOOSE ij \in S : \A kl \in S : ij[1] <= kl[1]
         IN  <<SegmentValue(title, first)>> \o InTitleOrder(title, S \ {first})

\* "identifier followed by one or more bracketed segments": one or more
\* characters other than brackets, then a non-empty bracketed segment
HasDimSuffix(title) ==
    \E ij \in Segments(title) :
        /\ ij[1] > 1
        /\ ij[2] > ij[1] + 1
        /\ \A k \in 1..(ij[1] - 1) : ~IsBracket(title[k])

PurelyNumericDims(title) ==
    IF HasDimSuffix(title)
    THEN InTitleOrder(title, {ij \in Segments(title) : PurelyNumeric(title, ij)})
    ELSE <<>>

NumeralDims(title) ==
    IF HasDimSuffix(title)
    THEN InTitleOrder(title, {ij \in Segments(title) : Numeral(title, ij)})
    ELSE <<>>

\* the leaf of a single-leaf column is numerical: a primitive leaf class,
\* or a typed leaf whose code is of the table or the compressed float
NumericalLeaf(leaf) ==
    \/ leaf.cls \in PrimitiveLeafClasses
    \/ leaf.cls = "TLeafElement" /\ leaf.fType \in PrimitiveCodes \cup {kDouble32}

SoleLeaf == branch.fLeaves[1]

(***************************************************************************)
(* C1 as stated: whenever the plan is Counted(inner), the inner Scalar or  *)
(* ScaledFloat layout carries empty dims (a column is never both jagged    *)
(* and fixed-shape).                                                       *)
(***************************************************************************)
C1_CountedNeverShaped ==
    \A sw \in BOOLEAN :
        out[sw].plan = "asjagged"
            => LayoutDims(Layout(out[sw].content)) = <<<<>>, <<>>>>

(***************************************************************************)
(* C1 amended: whenever the plan is Counted(inner), the inner layout       *)
(* carries exactly the title-derived dims when the count comes from the    *)
(* counter leaf of a numerical sole leaf, and empty dims on every other    *)
(* Counted path (declared basic pointer, STL vector, vector<T> names).     *)
(***************************************************************************)
C1_CountedDims ==
    \A sw \in BOOLEAN :
        out[sw].plan = "asjagged"
            => LET d == LayoutDims(Layout(out[sw].content))
               IN  IF NumericalLeaf(SoleLeaf)
                   THEN /\ SoleLeaf.fLeafCount # "None"
                        /\ d = <<NumeralDims(SoleLeaf.fTitle),
                                 NumeralDims(SoleLeaf.fTitle)>>
                   ELSE d = <<<<>>, <<>>>>

\* a counted column of the title "x[n][3]" whose inner layout has dims (3,)
C1_Witness ==
    /\ Len(branch.fLeaves) = 1
    /\ SoleLeaf.fTitle = <<"x", "[", "n", "]", "[", "3", "]">>
    /\ out[TRUE].plan = "asjagged"
    /\ LayoutDims(out[TRUE].content) = <<<<3>>, <<3>>>>

(***************************************************************************)
(* C5 as stated: the dims of a single-leaf column are empty when the title *)
(* is not an identifier followed by bracketed segments, and otherwise the  *)
(* tuple of every purely numeric bracketed segment in title order, every   *)
(* element a positive integer.  Read off the plan of a numerical leaf.     *)
(***************************************************************************)
PlanDims(swapbytes) ==
    LayoutDims(IF out[swapbytes].plan = "asjagged"
               THEN out[swapbytes].content ELSE out[swapbytes])

ShapedPlan(swapbytes) ==
    /\ Len(branch.fLeaves) = 1
    /\ NumericalLeaf(SoleLeaf)
    /\ out[swapbytes].plan \in {"asjagged", "asdtype"}

C5_EveryNumericSegment ==
    \A sw \in BOOLEAN :
        ShapedPlan(sw)
            => /\ PlanDims(sw)[2] = PurelyNumericDims(SoleLeaf.fTitle)
               /\ \A i \in 1..Len(PlanDims(sw)[2]) : PlanDims(sw)[2][i] > 0

(***************************************************************************)
(* C5 amended: the dims are empty when the title is not an identifier      *)
(* followed by bracketed segments, and otherwise the tuple, in title       *)
(* order, of every bracketed segment that is a decimal numeral with a      *)
(* non-zero first digit; "[0]" and "[03]" are skipped like the non-numeric *)
(* segments, and every element is a positive integer.                      *)
(***************************************************************************)
C5_NumeralSegments ==
    \A sw \in BOOLEAN :
        ShapedPlan(sw)
            => /\ PlanDims(sw)[1] = NumeralDims(SoleLeaf.fTitle)
               /\ PlanDims(sw)[2] = NumeralDims(SoleLeaf.fTitle)
               /\ \A i \in 1..Len(PlanDims(sw)[2]) : PlanDims(sw)[2][i] > 0

\* a title with a zero-padded segment and a numeral: "x[03][3]" gives (3,)
C5_Witness ==
    /\ ShapedPlan(TRUE)
    /\ SoleLeaf.fTitle = <<"x", "[", "0", "3", "]", "[", "3", "]">>
    /\ PlanDims(TRUE)[2] = <<3>>

(***************************************************************************)
(* C2 as stated: interpret ends with a plan or with None for every column; *)
(* no exception escapes it.                                                *)
(***************************************************************************)
C2_NothingEscapes == \A sw \in BOOLEAN : out[sw].plan # "raise"

(***************************************************************************)
(* The restricted grammar of the compressed-float expressions, and the     *)
(* number q + p * pi an expression of it denotes.                          *)
(***************************************************************************)
RECURSIVE InGrammar(_)
InGrammar(e) ==
    \/ e.node = "Num" /\ e.ty \in {"int", "float"}
    \/ e.node = "Name" /\ e.id = "pi"
    \/ e.node = "UnaryOp" /\ e.op = "USub" /\ InGrammar(e.operand)
    \/ e.node = "BinOp" /\ e.op \in ArithOps
                        /\ InGrammar(e.left) /\ InGrammar(e.right)

Real(q, p) == [q |-> q, p |-> p]

Undefined == [undefined |-> TRUE]

IsUndefined(x) == "undefined" \in DOMAIN x

RECURSIVE Denotes(_)
Denotes(e) ==
    IF e.node = "Num" THEN Real(e.q, RatZero)
    ELSE IF e.node = "Name" THEN Real(RatZero, <<1, 1>>)
    ELSE IF e.node = "UnaryOp"
        THEN LET x == Denotes(e.operand)
             IN  IF IsUndefined(x) THEN x ELSE Real(RatNeg(x.q), RatNeg(x.p))
    ELSE LET x == Denotes(e.left)
             y == Denotes(e.right)
         IN  IF IsUndefined(x) \/ IsUndefined(y) THEN Undefined
             ELSE IF e.op = "Add"
                 THEN Real(RatAdd(x.q, y.q), RatAdd(x.p, y.p))
             ELSE IF e.op = "Sub"
                 THEN Real(RatAdd(x.q, RatNeg(y.q)), RatAdd(x.p, RatNeg(y.p)))
             ELSE IF e.op = "Mult"
                 THEN Real(RatMul(x.q, y.q),
                           RatAdd(RatMul(x.q, y.p), RatMul(x.p, y.q)))
             ELSE IF y = Real(RatZero, RatZero) THEN Undefined
             ELSE Real(RatDiv(x.q, y.q), RatDiv(x.p, y.q))

\* the column is a single compressed-float leaf whose streamer title holds
\* a "[" and a "]"
Double32Bracketed ==
    /\ Len(branch.fLeaves) = 1
    /\ SoleLeaf.cls = "TLeafElement" /\ SoleLeaf.fType = kDouble32
    /\ branch.streamer.kind # "None"
    /\ \E i \in 1..Len(branch.streamer.fTitle) : branch.streamer.fTitle[i].t = "["
    /\ \E i \in 1..Len(branch.streamer.fTitle) : branch.streamer.fTitle[i].t = "]"

FirstOf(title, t) ==
    CHOOSE i \in 1..Len(title) :
        title[i].t = t /\ \A j \in 1..(i - 1) : title[j].t # t

\* the bracketed segment read as an expression list, when it is one
SegmentIsList ==
    LET title == branch.streamer.fTitle
        l == FirstOf(title, "[")
    IN  /\ FirstOf(title, "]") = l + 2
        /\ title[l + 1].t = "src"
        /\ title[l + 1].ast.node = "List"

SegmentList == branch.streamer.fTitle[FirstOf(branch.streamer.fTitle, "[") + 1].ast.elts

\* the segment parses and evaluates under the restricted grammar
WellFormedSegment ==
    /\ SegmentIsList
    /\ Len(SegmentList) \in {2, 3}
    /\ \A i \in 1..2 :
        InGrammar(SegmentList[i]) /\ ~IsUndefined(Denotes(SegmentList[i]))
    /\ Len(SegmentList) = 3 => SegmentList[3].node = "Num"

(***************************************************************************)
(* C3: for a compressed-float column whose streamer title holds a          *)
(* bracketed segment, a segment that does not parse or evaluate under the  *)
(* restricted grammar makes interpret return None: it neither raises nor   *)
(* returns the plain float32-to-float64 plan.                              *)
(***************************************************************************)
C3_MalformedIsNone ==
    \A sw \in BOOLEAN :
        (Called(sw) /\ Double32Bracketed /\ ~WellFormedSegment)
            => out[sw] = None

\* a segment with a function call, resolved to None
C3_Witness ==
    /\ Double32Bracketed
    /\ SegmentIsList
    /\ \E i \in 1..Len(SegmentList) : SegmentList[i] = Call
    /\ out[TRUE] = None

(***************************************************************************)
(* C4 as stated: for a compressed-float column whose streamer title holds  *)
(* a well-formed bracketed expression the plan is a ScaledFloat whose low  *)
(* and high are the values of the first two elements, whose bit-width is   *)
(* the third element, or 32 in the 2-element form, and is an integer.      *)
(***************************************************************************)
ScaledFloat(swapbytes) ==
    IF out[swapbytes].plan = "asjagged"
    THEN out[swapbytes].content ELSE out[swapbytes]

C4_RangeAndIntegerWidth ==
    \A sw \in BOOLEAN :
        (Called(sw) /\ Double32Bracketed /\ WellFormedSegment)
            => LET sf == ScaledFloat(sw)
               IN  /\ sf.plan = "asdouble32"
                   /\ Real(sf.low.q, sf.low.p) = Denotes(SegmentList[1])
                   /\ Real(sf.high.q, sf.high.p) = Denotes(SegmentList[2])
                   /\ sf.numbits.ty = "int"
                   /\ IF Len(SegmentList) = 3
                      THEN sf.numbits.q = SegmentList[3].q
                      ELSE sf.numbits.q = <<32, 1>>

(***************************************************************************)
(* The fixed tables the claims refer to: the byte width of each numeric    *)
(* type code, and kind and width of each primitive element type T.         *)
(***************************************************************************)
Width(code) ==
    CASE code \in {kBool, kChar, kUChar} -> 1
      [] code \in {kShort, kUShort} -> 2
      [] code \in {kInt, kUInt, kBits, kCounter, kFloat} -> 4
      [] code \in {kLong, kULong, kLong64, kULong64, kDouble} -> 8

ElementLayout ==
    [bool |-> <<"b", 1>>, char |-> <<"i", 1>>, unsigned_char |-> <<"u", 1>>,
     short |-> <<"i", 2>>, unsigned_short |-> <<"u", 2>>, int |-> <<"i", 4>>,
     unsigned_int |-> <<"u", 4>>, long |-> <<"i", 8>>,
     unsigned_long |-> <<"u", 8>>, float |-> <<"f", 4>>, double |-> <<"f", 8>>]

PrimitiveTypes == DOMAIN ElementLayout

\* plan is Scalar(T): kind and width of T, no dims
ScalarOf(plan, t) ==
    /\ plan.plan = "asdtype"
    /\ plan.fromdtype.kind = ElementLayout[t][1]
    /\ plan.fromdtype.size = ElementLayout[t][2]
    /\ plan.fromdtype.shape = <<>> /\ plan.todtype.shape = <<>>
    /\ plan.todtype.kind = ElementLayout[t][1]
    /\ plan.todtype.size = ElementLayout[t][2]

\* the byte order written for a big-endian layout of that width
BigEndian(size) == IF size = 1 THEN "|" ELSE ">"

\* the column's leaf counts the leaves of all its child branches
CountsChildren ==
    /\ Len(branch.fBranches) > 0
    /\ \A i \in 1..Len(branch.fBranches) :
        branch.fBranches[i] = Child(1, "self")

\* a single generic typed leaf that is not numerical
StructuralLeaf ==
    /\ Len(branch.fLeaves) = 1
    /\ SoleLeaf.cls = "TLeafElement"
    /\ ~NumericalLeaf(SoleLeaf)

RECURSIVE DimsProduct(_)
DimsProduct(d) == IF d = <<>> THEN 1 ELSE Head(d) * DimsProduct(Tail(d))

(***************************************************************************)
(* C6: for a single generic typed leaf on the structural path whose        *)
(* streamer declares a basic scalar member with a type code of the table   *)
(* and a byte size that is q times the element width, the plan's dims are  *)
(* the title-derived dims when their product is q, and (q,) otherwise.     *)
(***************************************************************************)
BasicMember ==
    /\ StructuralLeaf
    /\ ~CountsChildren
    /\ branch.streamer.kind = "TStreamerBasicType"
    /\ branch.streamer.fType \in PrimitiveCodes
    /\ branch.streamer.fSize % Width(branch.streamer.fType) = 0

Quotient == branch.streamer.fSize \div Width(branch.streamer.fType)

C6_DeclaredSizeWins ==
    \A sw \in BOOLEAN :
        (Called(sw) /\ BasicMember)
            => /\ out[sw].plan = "asdtype"
               /\ out[sw].todtype.shape =
                    IF DimsProduct(NumeralDims(SoleLeaf.fTitle)) = Quotient
                    THEN NumeralDims(SoleLeaf.fTitle)
                    ELSE <<Quotient>>

\* declared size 12, 4-byte int, title dims (2, 2): resolved to (3,)
C6_Witness ==
    /\ BasicMember
    /\ branch.streamer.fSize = 12 /\ branch.streamer.fType = kInt
    /\ NumeralDims(SoleLeaf.fTitle) = <<2, 2>>
    /\ out[TRUE].plan = "asdtype"
    /\ out[TRUE].todtype.shape = <<3>>

(***************************************************************************)
(* C7 as stated: a column that reaches the type-name patterns resolves to  *)
(* the same plan whether the pattern is carried by the streamer's type     *)
(* name or by the column's class name, the other carrying none.            *)
(***************************************************************************)
ReachesPatterns(b, swapbytes) ==
    /\ Len(b.fLeaves) = 1
    /\ b.fLeaves[1].cls = "TLeafElement"
    /\ ~NumericalLeaf(b.fLeaves[1])
    /\ childcounted(b) = Fall
    /\ streamerobject(b) = Fall
    /\ streamerinfo(b) = Fall
    /\ basictype(b, swapbytes, TitleDims(b.fLeaves[1].fTitle)) = Fall
    /\ basicpointer(b, swapbytes) = Fall
    /\ strings(b) = Fall
    /\ stlvector(b, swapbytes) = Fall

\* the same column with type name and class name exchanged
NamesExchanged(b) ==
    [b EXCEPT !.streamer.fTypeName = b.fClassName,
              !.fClassName = b.streamer.fTypeName]

C7_EitherSource ==
    \A sw \in BOOLEAN :
        (/\ Called(sw)
         /\ hasattr(branch.streamer, "fTypeName")
         /\ ReachesPatterns(branch, sw)
         /\ ReachesPatterns(NamesExchanged(branch), sw)
         /\ branch.streamer.fTypeName \in PatternNames
         /\ branch.fClassName \in PlainNames)
            => out[sw] = interpret(NamesExchanged(branch), sw)

(***************************************************************************)
(* C8: for a column that reaches the type-name patterns, the type name     *)
(* vector<vector<T> > of a primitive T resolves to                         *)
(* VectorOfVector(Scalar(T)) with big-endian source and header-skip 6,     *)
(* from the streamer's type name or, that one carrying no pattern, from    *)
(* the class name; the type name vector<T> resolves to Counted(Scalar(T))  *)
(* with header-skip 10.                                                    *)
(***************************************************************************)
IsVectorOfVector(plan, t) ==
    /\ plan.plan = "asobj"
    /\ plan.skipbytes = 6
    /\ plan.cls.c = "STLVector"
    /\ plan.cls.of.c = "STLVector"
    /\ ScalarOf(plan.cls.of.of, t)
    /\ plan.cls.of.of.fromdtype.order = BigEndian(ElementLayout[t][2])

IsCounted(plan, t) ==
    /\ plan.plan = "asjagged"
    /\ plan.skipbytes = 10
    /\ ScalarOf(plan.content, t)

TypeNameIs(name) ==
    hasattr(branch.streamer, "fTypeName") /\ branch.streamer.fTypeName = N(name)

ClassNameAloneIs(name) ==
    /\ hasattr(branch.streamer, "fTypeName") => branch.streamer.fTypeName \in PlainNames
    /\ branch.fClassName = N(name)

C8_VectorTables ==
    \A sw \in BOOLEAN :
        (Called(sw) /\ ReachesPatterns(branch, sw))
            => \A t \in PrimitiveTypes :
                /\ TypeNameIs(VectorVectorName[t]) => IsVectorOfVector(out[sw], t)
                /\ ClassNameAloneIs(VectorVectorName[t]) => IsVectorOfVector(out[sw], t)
                /\ TypeNameIs(VectorName[t]) => IsCounted(out[sw], t)

\* vector<vector<int> > by type name, resolved
C8_Witness ==
    /\ ReachesPatterns(branch, TRUE)
    /\ TypeNameIs(VectorVectorName["int"])
    /\ IsVectorOfVector(out[TRUE], "int")

(***************************************************************************)
(* C9 as stated: on every path that returns a Scalar layout, each Scalar   *)
(* of the plan returned with swapbytes=False keeps the big-endian source   *)
(* order as destination order, each Scalar of the plan returned with       *)
(* swapbytes=True has native destination order, and the two plans are      *)
(* otherwise identical.                                                    *)
(***************************************************************************)
RECURSIVE ScalarsOf(_)
ScalarsOf(p) ==
    IF "plan" \in DOMAIN p
    THEN CASE p.plan = "asdtype" -> {p}
           [] p.plan \in {"asjagged", "aswrapped"} -> ScalarsOf(p.content)
           [] p.plan = "asobj" -> ScalarsOf(p.cls)
           [] OTHER -> {}
    ELSE IF p.c = "STLVector" THEN ScalarsOf(p.of)
    ELSE {}

\* the byte orders a layout is written with, field by field for a record
OrdersOf(dt) ==
    IF dt.fields = <<>> THEN {dt.order}
    ELSE {dt.fields[i].dt.order : i \in DOMAIN dt.fields}

WithoutOrder(dt) ==
    [dt EXCEPT !.order = "?",
               !.fields = [i \in DOMAIN dt.fields |->
                              [dt.fields[i] EXCEPT !.dt.order = "?"]]]

\* the plan with the destination byte orders of its Scalars blanked
RECURSIVE WithoutDestinationOrder(_)
WithoutDestinationOrder(p) ==
    IF "plan" \in DOMAIN p
    THEN CASE p.plan = "asdtype" -> [p EXCEPT !.todtype = WithoutOrder(p.todtype)]
           [] p.plan \in {"asjagged", "aswrapped"} ->
                [p EXCEPT !.content = WithoutDestinationOrder(p.content)]
           [] p.plan = "asobj" -> [p EXCEPT !.cls = WithoutDestinationOrder(p.cls)]
           [] OTHER -> p
    ELSE IF p.c = "STLVector" THEN [p EXCEPT !.of = WithoutDestinationOrder(p.of)]
    ELSE p

C9_ByteOrderOptionHonoured ==
    (Called(TRUE) /\ Called(FALSE))
        => /\ \A s \in ScalarsOf(out[FALSE]) :
                /\ OrdersOf(s.fromdtype) \subseteq {">", "|"}
                /\ s.todtype = s.fromdtype
           /\ \A s \in ScalarsOf(out[TRUE]) : OrdersOf(s.todtype) \subseteq {"=", "|"}
           /\ WithoutDestinationOrder(out[TRUE]) = WithoutDestinationOrder(out[FALSE])

(***************************************************************************)
(* C10 as stated: for a column declared as an STL vector whose element     *)
(* type code is not primitive and whose element class is resolved, the     *)
(* plan is Counted(Scalar(record-layout)) with header-skip 10 when the     *)
(* class exposes a fixed-record layout and declares no method set, with    *)
(* the Scalar Wrapped in the per-element methods when it declares them,    *)
(* and that Counted Wrapped again in the array-level methods when it       *)
(* declares those too; without a fixed-record layout the plan is Object    *)
(* tagged vector-of-class with header-skip 6.                              *)
(***************************************************************************)
ReachesVector(b, swapbytes) ==
    /\ Len(b.fLeaves) = 1
    /\ b.fLeaves[1].cls = "TLeafElement"
    /\ ~NumericalLeaf(b.fLeaves[1])
    /\ childcounted(b) = Fall
    /\ streamerobject(b) = Fall
    /\ streamerinfo(b) = Fall
    /\ basictype(b, swapbytes, TitleDims(b.fLeaves[1].fTitle)) = Fall
    /\ basicpointer(b, swapbytes) = Fall
    /\ strings(b) = Fall

VectorOfResolvedClass(sw) ==
    /\ ReachesVector(branch, sw)
    /\ hasattr(branch.streamer, "fSTLtype")
    /\ branch.streamer.fSTLtype = kSTLvector
    /\ branch.streamer.fCtype \notin PrimitiveCodes
    /\ branch.vecstreamer.kind # "None"
    /\ \/ branch.vecstreamer.hasPyclass
       \/ \E c \in branch.classes : c.name = branch.vecstreamer.fName

ElementClass ==
    IF branch.vecstreamer.hasPyclass THEN branch.vecstreamer.pyclass
    ELSE CHOOSE c \in branch.classes : c.name = branch.vecstreamer.fName

IsRecordScalar(p) ==
    /\ p.plan = "asdtype"
    /\ p.fromdtype.kind = "V"
    /\ p.fromdtype.fields = ElementClass.layout

IsCountedRecords(p) ==
    /\ p.plan = "asjagged" /\ p.skipbytes = 10
    /\ IsRecordScalar(p.content)

IsCountedWrappedRecords(p) ==
    /\ p.plan = "asjagged" /\ p.skipbytes = 10
    /\ p.content.plan = "aswrapped"
    /\ p.content.methods = "_methods"
    /\ IsRecordScalar(p.content.content)

C10_VectorOfClass ==
    \A sw \in BOOLEAN :
        (Called(sw) /\ VectorOfResolvedClass(sw))
            => IF ElementClass.recarray = "ok"
               THEN CASE ElementClass.methods = "None" -> IsCountedRecords(out[sw])
                      [] ElementClass.methods = "methods" ->
                            IsCountedWrappedRecords(out[sw])
                      [] ElementClass.methods = "methods+arraymethods" ->
                            /\ out[sw].plan = "aswrapped"
                            /\ out[sw].methods = "_arraymethods"
                            /\ IsCountedWrappedRecords(out[sw].content)
               ELSE out[sw] = asobj(STLVector(ClassRef(ElementClass.name)), 6)

(***************************************************************************)
(* C11 as stated: when the streamer declares an embedded object or an      *)
(* object pointer whose class name is present in the class registry, the   *)
(* plan is Object(class-name, header-skip) with header-skip 0 for the      *)
(* embedded object and a value different from 0 for the object pointer.    *)
(***************************************************************************)
\* a single leaf and an object pointer to a class of the registry
RegisteredPointer ==
    /\ Len(branch.fLeaves) = 1
    /\ branch.streamer.kind = "TStreamerObjectPointer"
    /\ \E c \in branch.classes :
        \/ c.name = branch.streamer.fTypeName
        \/ c.name \o <<"*">> = branch.streamer.fTypeName

\* a single non-numerical leaf that does not count its children, and an
\* embedded object of a class of the registry
RegisteredEmbedded ==
    /\ Len(branch.fLeaves) = 1
    /\ ~NumericalLeaf(SoleLeaf)
    /\ ~CountsChildren
    /\ branch.streamer.kind = "TStreamerObject"
    /\ \E c \in branch.classes : c.name = branch.streamer.fTypeName

\* the class of the registry the streamer names
DeclaredClass ==
    CHOOSE c \in branch.classes :
        \/ c.name = branch.streamer.fTypeName
        \/ c.name \o <<"*">> = branch.streamer.fTypeName

IsObject(plan) ==
    /\ plan.plan = "asobj"
    /\ plan.cls = [c |-> "class", name |-> DeclaredClass.name]

C11_PointerDistinguished ==
    \A sw \in BOOLEAN :
        /\ (Called(sw) /\ RegisteredEmbedded)
            => IsObject(out[sw]) /\ out[sw].skipbytes = 0
        /\ (Called(sw) /\ RegisteredPointer)
            => IsObject(out[sw]) /\ out[sw].skipbytes # 0

(***************************************************************************)
(* C11 amended: for a single-leaf column whose streamer declares an object *)
(* pointer to a class of the registry, and for a single non-numerical leaf *)
(* that does not count its children whose streamer declares an embedded    *)
(* object of a class of the registry, the plan is Object(class-name, 0):   *)
(* the header-skip is 0 in both cases.                                     *)
(***************************************************************************)
C11_ObjectSkipZero ==
    \A sw \in BOOLEAN :
        (Called(sw) /\ (RegisteredEmbedded \/ RegisteredPointer))
            => IsObject(out[sw]) /\ out[sw].skipbytes = 0

\* an object pointer "TAxis*" resolved to Object(TAxis, 0)
C11_Witness ==
    /\ RegisteredPointer
    /\ branch.streamer.fTypeName = <<"TAxis", "*">>
    /\ out[TRUE] = asobj(ClassRef(N("TAxis")), 0)

(***************************************************************************)
(* C12 as stated: for a single generic typed leaf on the structural path   *)
(* whose streamer declares a basic scalar member with a type code of the   *)
(* table and a byte size that is not a multiple of the element width, the  *)
(* result is None whatever the type name and the class name contain.       *)
(***************************************************************************)
IndivisibleMember ==
    /\ StructuralLeaf
    /\ ~CountsChildren
    /\ branch.streamer.kind = "TStreamerBasicType"
    /\ branch.streamer.fType \in PrimitiveCodes
    /\ branch.streamer.fSize % Width(branch.streamer.fType) # 0

C12_IndivisibleIsNone ==
    \A sw \in BOOLEAN :
        (Called(sw) /\ IndivisibleMember) => out[sw] = None

====
